---- MODULE Spec2Model ----
(***************************************************************************)
(* A model of the task manager of crates/katana/tasks (manager.rs): a      *)
(* TaskManager owns a TaskTracker and a CancellationToken; every spawned   *)
(* task is the race (tokio::select!) of its body against the token; a      *)
(* critical task catches its body's panic, cancels the token and logs.     *)
(***************************************************************************)
EXTENDS Naturals, FiniteSets, Sequences

\* Bounds of the model.
MaxTasks == 2
MaxAwaits == 1
MaxWaitCalls == 2

Tasks == 1..MaxTasks

\* How a task body ends once its awaits are behind it: it returns, it
\* panics, or it loops for ever (the `loop { sleep; println }` of goofy_ahh).
BodyEnds == {"ret", "panic", "loop"}

\* select! polls its branches in a random order: the branch polled first.
Branches == {"task", "cancel"}

VARIABLES
    cancelled,    \* on_cancel: the CancellationToken has been cancelled
    closed,       \* tracker: TaskTracker::close has been called
    trackerLen,   \* tracker: number of tracked futures not yet dropped
    notified,     \* tracker: the pending wait() future has been notified
    dropped,      \* the TaskManager has been dropped
    wsPc,         \* position of the wait_shutdown call in progress
    wsReturned,   \* number of wait_shutdown calls that have returned
    nSpawned,     \* number of spawn / spawn_critical calls made
    st,           \* per task: what its JoinHandle yields, or "running"
    crit,         \* per task: spawned by spawn_critical
    bodyEnd,      \* per task: how the body ends
    left,         \* per task: awaits of the body still ahead
    ready,        \* per task: the body's pending await is ready (woken)
    tailRan,      \* per task: the body ran its final step
    panicked,     \* per task: the body panicked
    logCount,     \* per task name: "Critical task failed." events emitted
    closedAtSpawn, \* per task: the tracker was closed when it was spawned
    firedAtSpawn, \* per task: the token was cancelled when it was spawned
    fires,        \* number of calls of CancellationToken::cancel so far
    rec,          \* a PanickedTaskError of manager.rs being built and rendered
    builder,      \* a TaskBuilder / CriticalTaskBuilder of task.rs
    task,         \* the Task built from the builder, and what polling it did
    reporter      \* the TaskManagerMetrics of metrics.rs and its report calls

mgrVars == <<cancelled, closed, trackerLen, notified, dropped, wsPc, wsReturned,
             nSpawned, st, crit, bodyEnd, left, ready, tailRan, panicked,
             logCount, closedAtSpawn, firedAtSpawn, fires>>

\* The state of task.rs and of the panic record: untouched by the manager.
auxVars == <<rec, builder, task, reporter>>

vars == <<mgrVars, auxVars>>

taskVars == <<st, crit, bodyEnd, left, ready, tailRan, panicked, closedAtSpawn,
              firedAtSpawn>>

Final == {"completed", "cancelled", "joinerr"}

TypeOK ==
    /\ cancelled \in BOOLEAN /\ closed \in BOOLEAN /\ notified \in BOOLEAN
    /\ dropped \in BOOLEAN
    /\ trackerLen \in 0..MaxTasks
    /\ wsPc \in {"idle", "waitCancel", "waitTracker"}
    /\ wsReturned \in 0..MaxWaitCalls
    /\ nSpawned \in 0..MaxTasks
    /\ st \in [Tasks -> {"unspawned", "running"} \cup Final]
    /\ crit \in [Tasks -> BOOLEAN]
    /\ bodyEnd \in [Tasks -> BodyEnds]
    /\ left \in [Tasks -> 0..MaxAwaits]
    /\ ready \in [Tasks -> BOOLEAN]
    /\ tailRan \in [Tasks -> BOOLEAN]
    /\ panicked \in [Tasks -> BOOLEAN]
    /\ logCount \in [Tasks -> 0..1]
    /\ closedAtSpawn \in [Tasks -> BOOLEAN]
    /\ firedAtSpawn \in [Tasks -> BOOLEAN]
    /\ fires \in 0..(MaxTasks + 1)

\* Mutant of Init: the manager is created with a closed tracker.
Init_Closed ==
    /\ cancelled = FALSE
    /\ closed = TRUE
    /\ trackerLen = 0
    /\ notified = FALSE
    /\ dropped = FALSE
    /\ wsPc = "idle"
    /\ wsReturned = 0
    /\ nSpawned = 0
    /\ st = [t \in Tasks |-> "unspawned"]
    /\ crit = [t \in Tasks |-> FALSE]
    /\ bodyEnd = [t \in Tasks |-> "ret"]
    /\ left = [t \in Tasks |-> 0]
    /\ ready = [t \in Tasks |-> FALSE]
    /\ tailRan = [t \in Tasks |-> FALSE]
    /\ panicked = [t \in Tasks |-> FALSE]
    /\ logCount = [t \in Tasks |-> 0]
    /\ closedAtSpawn = [t \in Tasks |-> FALSE]
    /\ firedAtSpawn = [t \in Tasks |-> FALSE]
    /\ fires = 0
    /\ rec = [stage |-> "idle", task_name |-> "", error |-> [kind |-> "unit", msg |-> ""], text |-> ""]
    /\ builder = [stage |-> "idle"]
    /\ task = [stage |-> "none"]
    /\ reporter = [stage |-> "idle"]

\* No panic record, no builder, no built task and no metrics reporter are
\* under consideration.
NoRecord == [stage |-> "idle", task_name |-> "", error |-> [kind |-> "unit", msg |-> ""], text |-> ""]
NoBuilder == [stage |-> "idle"]
NoTask == [stage |-> "none"]
NoReporter == [stage |-> "idle"]

\* TaskManager::new: an open, empty tracker and a fresh token.
TaskManager_new ==
    /\ cancelled = FALSE
    /\ closed = FALSE
    /\ trackerLen = 0
    /\ notified = FALSE
    /\ dropped = FALSE
    /\ wsPc = "idle"
    /\ wsReturned = 0
    /\ nSpawned = 0
    /\ st = [t \in Tasks |-> "unspawned"]
    /\ crit = [t \in Tasks |-> FALSE]
    /\ bodyEnd = [t \in Tasks |-> "ret"]
    /\ left = [t \in Tasks |-> 0]
    /\ ready = [t \in Tasks |-> FALSE]
    /\ tailRan = [t \in Tasks |-> FALSE]
    /\ panicked = [t \in Tasks |-> FALSE]
    /\ logCount = [t \in Tasks |-> 0]
    /\ closedAtSpawn = [t \in Tasks |-> FALSE]
    /\ firedAtSpawn = [t \in Tasks |-> FALSE]
    /\ fires = 0

\* The state after construction of the manager.
Init ==
    /\ TaskManager_new
    /\ rec = NoRecord
    /\ builder = NoBuilder
    /\ task = NoTask
    /\ reporter = NoReporter

\* Mutant of TrackerSpawnOn: a closed tracker refuses the future.
TrackerSpawnOn_RejectClosed(len, isClosed) ==
    IF isClosed THEN [accepted |-> FALSE, len |-> len]
    ELSE [accepted |-> TRUE, len |-> len + 1]

\* TaskTracker::spawn_on: the future is wrapped in a tracked future and
\* handed to the runtime whatever the closed flag says; the count grows.
TrackerSpawnOn(len, isClosed) == [accepted |-> TRUE, len |-> len + 1]

\* spawn_task (called by spawn and by spawn_critical): clone the token and
\* spawn the race on the tracker. The new task is scheduled for a first poll.
spawn_task(isCrit, end, awaits) ==
    LET t == nSpawned + 1
        r == TrackerSpawnOn(trackerLen, closed)
    IN  /\ ~dropped
        /\ nSpawned < MaxTasks
        /\ nSpawned' = t
        /\ trackerLen' = IF r.accepted THEN r.len ELSE trackerLen
        /\ st' = IF r.accepted THEN [st EXCEPT ![t] = "running"] ELSE st
        /\ crit' = [crit EXCEPT ![t] = isCrit]
        /\ bodyEnd' = [bodyEnd EXCEPT ![t] = end]
        /\ left' = [left EXCEPT ![t] = awaits]
        /\ ready' = [ready EXCEPT ![t] = r.accepted]
        /\ closedAtSpawn' = [closedAtSpawn EXCEPT ![t] = closed]
        /\ firedAtSpawn' = [firedAtSpawn EXCEPT ![t] = cancelled]
        /\ UNCHANGED <<cancelled, closed, notified, dropped, wsPc, wsReturned,
                       tailRan, panicked, logCount, fires>>
        /\ UNCHANGED auxVars

\* The bodies a caller may hand over: a looping body has no last await.
BodyAwaits(end) == IF end = "loop" THEN {0} ELSE 0..MaxAwaits

spawn ==
    \E end \in BodyEnds : \E awaits \in BodyAwaits(end) :
        spawn_task(FALSE, end, awaits)

spawn_critical ==
    \E end \in BodyEnds : \E awaits \in BodyAwaits(end) :
        spawn_task(TRUE, end, awaits)

\* Polling a task body written as an async block: a body whose pending await
\* is not ready stays pending; otherwise it runs to its next await ("step"),
\* runs one more round of its loop ("iter"), returns or panics.
BodyPoll(end, awaits, isReady) ==
    IF ~isReady THEN "pending"
    ELSE IF awaits > 0 THEN "step"
    ELSE IF end = "loop" THEN "iter"
    ELSE end

\* Mutant of critical_task: the panic is caught and logged, the token is
\* not cancelled.
critical_task_NoCancel(res) ==
    IF res = "panic"
    THEN [res |-> "ret", cancel |-> FALSE, log |-> 1]
    ELSE [res |-> res, cancel |-> FALSE, log |-> 0]

\* Mutant of critical_task: no catch_unwind, the panic goes through.
critical_task_NoCatch(res) == [res |-> res, cancel |-> FALSE, log |-> 0]

\* Mutant of critical_task: the panic is caught and the token cancelled,
\* but no record is built and nothing is logged.
critical_task_NoLog(res) ==
    IF res = "panic"
    THEN [res |-> "ret", cancel |-> TRUE, log |-> 0]
    ELSE [res |-> res, cancel |-> FALSE, log |-> 0]

\* critical_task: catch_unwind().map_err(..).map(drop) around the body. A
\* caught panic cancels the token, builds the PanickedTaskError, emits one
\* error! event, and the wrapped future resolves to unit.
critical_task(res) ==
    IF res = "panic"
    THEN [res |-> "ret", cancel |-> TRUE, log |-> 1]
    ELSE [res |-> res, cancel |-> FALSE, log |-> 0]

\* Mutant of normal_task: spawn wraps the body as spawn_critical does.
normal_task_Catches(res) ==
    IF res = "panic"
    THEN [res |-> "ret", cancel |-> TRUE, log |-> 1]
    ELSE [res |-> res, cancel |-> FALSE, log |-> 0]

\* spawn hands the body to spawn_task as it is: nothing is caught.
normal_task(res) == [res |-> res, cancel |-> FALSE, log |-> 0]

\* Mutant of PollsBody: the task branch is polled in every evaluation, even
\* when the cancel branch has already won.
PollsBody_Always(first, sig) == TRUE

\* Whether select! polls the task branch at all: not when the cancel branch
\* is polled first and the token is already cancelled.
PollsBody(first, sig) == ~(first = "cancel" /\ sig)

\* Mutant of select: the race is biased, the cancel branch always looked at
\* before the task branch's result.
select_Biased(first, res, sig) ==
    IF sig THEN "cancelled"
    ELSE IF res = "ret" THEN "completed"
    ELSE IF res = "panic" THEN "joinerr"
    ELSE "running"

\* Mutant of select: the race has no cancel branch at all.
select_NeverCancels(first, res, sig) ==
    IF res = "ret" THEN "completed"
    ELSE IF res = "panic" THEN "joinerr"
    ELSE "running"

\* Mutant of select: the cancel branch is looked at only when it is polled
\* first, so a pending body keeps the task running under a fired signal.
select_CancelOnlyFirst(first, res, sig) ==
    IF first = "cancel" /\ sig THEN "cancelled"
    ELSE IF res = "ret" THEN "completed"
    ELSE IF res = "panic" THEN "joinerr"
    ELSE "running"

\* The select! of spawn_task: what the spawned future yields in this poll,
\* given the branch polled first, the task branch's result and the token.
\* A panic of the task branch unwinds out of the select into the runtime,
\* which stores it in the JoinHandle as a JoinError.
select(first, res, sig) ==
    IF first = "cancel" /\ sig THEN "cancelled"
    ELSE IF res = "ret" THEN "completed"
    ELSE IF res = "panic" THEN "joinerr"
    ELSE IF sig THEN "cancelled"
    ELSE "running"

\* Mutant of CancellationToken_cancel: cancelling a cancelled token resets it.
CancellationToken_cancel_Toggles(sig) == ~sig

\* CancellationToken::cancel, as called by critical_task's closure and by
\* Drop: the token is cancelled whatever it was before.
CancellationToken_cancel(sig) == TRUE

\* Mutant of TrackerDropTask: the tracker's token is leaked.
TrackerDropTask_Leak(len, ended) == len

\* The tracked future is dropped when the task ends: the count shrinks, and
\* a closed tracker that becomes empty notifies its waiters.
TrackerDropTask(len, ended) == IF ended THEN len - 1 ELSE len

\* One poll of task t by the runtime. The task is polled when its body's
\* await is ready or when the cancelled token has woken it.
Poll(t, first) ==
    LET polled == PollsBody(first, cancelled)
        raw == IF polled THEN BodyPoll(bodyEnd[t], left[t], ready[t])
               ELSE "pending"
        w == IF crit[t] THEN critical_task(raw) ELSE normal_task(raw)
        out == select(first, w.res, cancelled)
        len == TrackerDropTask(trackerLen, out \in Final)
    IN  /\ st[t] = "running"
        /\ ready[t] \/ cancelled
        /\ st' = [st EXCEPT ![t] = out]
        /\ left' = [left EXCEPT ![t] = IF raw = "step" THEN @ - 1 ELSE @]
        /\ ready' = [ready EXCEPT ![t] = IF polled \/ out \in Final THEN FALSE ELSE @]
        /\ tailRan' = [tailRan EXCEPT ![t] = @ \/ raw = "ret"]
        /\ panicked' = [panicked EXCEPT ![t] = @ \/ raw = "panic"]
        /\ cancelled' = IF w.cancel THEN CancellationToken_cancel(cancelled)
                        ELSE cancelled
        /\ logCount' = [logCount EXCEPT ![t] = @ + w.log]
        /\ trackerLen' = len
        /\ notified' = (notified \/ (wsPc = "waitTracker" /\ out \in Final
                                     /\ closed /\ len = 0))
        /\ fires' = IF w.cancel THEN fires + 1 ELSE fires
        /\ UNCHANGED <<closed, dropped, wsPc, wsReturned, nSpawned, crit,
                       bodyEnd, closedAtSpawn, firedAtSpawn>>
        /\ UNCHANGED auxVars

PollTask == \E t \in Tasks : \E first \in Branches : Poll(t, first)

\* The await a body is pending on becomes ready (its sleep elapses) and
\* wakes the task.
Wake(t) ==
    /\ st[t] = "running"
    /\ ~ready[t]
    /\ ready' = [ready EXCEPT ![t] = TRUE]
    /\ UNCHANGED <<cancelled, closed, trackerLen, notified, dropped, wsPc,
                   wsReturned, nSpawned, st, crit, bodyEnd, left, tailRan,
                   panicked, logCount, closedAtSpawn, firedAtSpawn, fires>>
    /\ UNCHANGED auxVars

WakeTask == \E t \in Tasks : Wake(t)

\* Mutant of wait_shutdown_close: the tracker is not closed before waiting.
wait_shutdown_close_NoClose ==
    /\ ~dropped
    /\ wsPc = "idle"
    /\ wsReturned < MaxWaitCalls
    /\ wsPc' = "waitCancel"
    /\ UNCHANGED <<cancelled, closed, trackerLen, notified, dropped,
                   wsReturned, nSpawned, logCount, fires>>
    /\ UNCHANGED taskVars
    /\ UNCHANGED auxVars

\* Mutant of wait_shutdown_close: wait_shutdown also cancels the token.
wait_shutdown_close_Cancels ==
    /\ ~dropped
    /\ wsPc = "idle"
    /\ wsReturned < MaxWaitCalls
    /\ closed' = TRUE
    /\ cancelled' = TRUE
    /\ wsPc' = "waitCancel"
    /\ UNCHANGED <<trackerLen, notified, dropped, wsReturned, nSpawned,
                   logCount, fires>>
    /\ UNCHANGED taskVars
    /\ UNCHANGED auxVars

\* wait_shutdown, first statement: self.tracker.close().
wait_shutdown_close ==
    /\ ~dropped
    /\ wsPc = "idle"
    /\ wsReturned < MaxWaitCalls
    /\ closed' = TRUE
    /\ wsPc' = "waitCancel"
    /\ UNCHANGED <<cancelled, trackerLen, notified, dropped, wsReturned,
                   nSpawned, logCount, fires>>
    /\ UNCHANGED taskVars
    /\ UNCHANGED auxVars

\* wait_shutdown, second statement: self.on_cancel.cancelled().await resolves
\* once the token is cancelled; then self.tracker.wait() is created.
wait_shutdown_cancelled ==
    /\ wsPc = "waitCancel"
    /\ cancelled
    /\ wsPc' = "waitTracker"
    /\ notified' = FALSE
    /\ UNCHANGED <<cancelled, closed, trackerLen, dropped, wsReturned,
                   nSpawned, logCount, fires>>
    /\ UNCHANGED taskVars
    /\ UNCHANGED auxVars

\* Mutant of TrackerWaitReady: a closed tracker is enough, empty or not.
TrackerWaitReady_ClosedOnly(isClosed, len, wasNotified) == isClosed

\* TaskTracker::wait: ready when the tracker is closed and empty at the poll,
\* or when the wait future was notified since it was created.
TrackerWaitReady(isClosed, len, wasNotified) ==
    (isClosed /\ len = 0) \/ wasNotified

\* Mutant of wait_shutdown_wait: the tracker is reopened on return.
wait_shutdown_wait_Reopens ==
    /\ wsPc = "waitTracker"
    /\ (closed /\ trackerLen = 0) \/ notified
    /\ wsPc' = "idle"
    /\ wsReturned' = wsReturned + 1
    /\ notified' = FALSE
    /\ closed' = FALSE
    /\ UNCHANGED <<cancelled, trackerLen, dropped, nSpawned, logCount, fires>>
    /\ UNCHANGED taskVars
    /\ UNCHANGED auxVars

\* Mutant of wait_shutdown_wait: the token is replaced by a fresh one on
\* return.
wait_shutdown_wait_Resets ==
    /\ wsPc = "waitTracker"
    /\ (closed /\ trackerLen = 0) \/ notified
    /\ wsPc' = "idle"
    /\ wsReturned' = wsReturned + 1
    /\ notified' = FALSE
    /\ cancelled' = FALSE
    /\ UNCHANGED <<closed, trackerLen, dropped, nSpawned, logCount, fires>>
    /\ UNCHANGED taskVars
    /\ UNCHANGED auxVars

\* wait_shutdown, third statement: self.tracker.wait().await, then return.
wait_shutdown_wait ==
    /\ wsPc = "waitTracker"
    /\ TrackerWaitReady(closed, trackerLen, notified)
    /\ wsPc' = "idle"
    /\ wsReturned' = wsReturned + 1
    /\ notified' = FALSE
    /\ UNCHANGED <<cancelled, closed, trackerLen, dropped, nSpawned, logCount, fires>>
    /\ UNCHANGED taskVars
    /\ UNCHANGED auxVars

\* Mutant of Drop: the manager goes away without cancelling the token.
Drop_NoCancel ==
    /\ ~dropped
    /\ wsPc = "idle"
    /\ dropped' = TRUE
    /\ UNCHANGED <<cancelled, closed, trackerLen, notified, wsPc, wsReturned,
                   nSpawned, logCount, fires>>
    /\ UNCHANGED taskVars
    /\ UNCHANGED auxVars

\* Mutant of Drop: the token is cancelled only while tasks are tracked.
Drop_OnlyWithTasks ==
    /\ ~dropped
    /\ wsPc = "idle"
    /\ dropped' = TRUE
    /\ cancelled' = (cancelled \/ trackerLen > 0)
    /\ UNCHANGED <<closed, trackerLen, notified, wsPc, wsReturned, nSpawned,
                   logCount>>
    /\ fires' = fires + 1
    /\ UNCHANGED taskVars
    /\ UNCHANGED auxVars

\* Drop for TaskManager: self.on_cancel.cancel(). The manager is owned, so
\* no wait_shutdown call borrows it; spawned tasks are not aborted.
Drop ==
    /\ ~dropped
    /\ wsPc = "idle"
    /\ dropped' = TRUE
    /\ cancelled' = CancellationToken_cancel(cancelled)
    /\ UNCHANGED <<closed, trackerLen, notified, wsPc, wsReturned, nSpawned,
                   logCount>>
    /\ fires' = fires + 1
    /\ UNCHANGED taskVars
    /\ UNCHANGED auxVars

Next ==
    \/ spawn
    \/ spawn_critical
    \/ PollTask
    \/ WakeTask
    \/ wait_shutdown_close
    \/ wait_shutdown_cancelled
    \/ wait_shutdown_wait
    \/ Drop

Spec == Init /\ [][Next]_vars

\* The runtime polls every woken task, timers elapse, and the caller blocked
\* in wait_shutdown is polled when woken (rt.block_on in goofy_ahh).
Fairness ==
    /\ \A t \in Tasks : WF_vars(\E first \in Branches : Poll(t, first))
    /\ \A t \in Tasks : WF_vars(Wake(t))
    /\ WF_vars(wait_shutdown_cancelled)
    /\ WF_vars(wait_shutdown_wait)

FairSpec == Spec /\ Fairness

(***************************************************************************)
(* Properties.                                                             *)
(***************************************************************************)

\* Some critical task other than t has panicked.
CritPanickedOther(t) == \E c \in Tasks \ {t} : crit[c] /\ panicked[c]

\* In this step task t is not polled: it stays running and its body makes
\* no progress.
NotPolled(t) ==
    /\ st'[t] = "running"
    /\ left'[t] = left[t]
    /\ tailRan'[t] = tailRan[t]
    /\ panicked'[t] = panicked[t]

\* In this step the body of task t runs its final step (it returns or
\* panics) in the very poll that resolves the task: its pending await was
\* ready and no await was left.
FinishesInThisPoll(t) ==
    /\ ready[t]
    /\ left[t] = 0
    /\ bodyEnd[t] \in {"ret", "panic"}
    /\ st'[t] = IF bodyEnd[t] = "panic" /\ ~crit[t] THEN "joinerr" ELSE "completed"
    /\ tailRan'[t] = (bodyEnd[t] = "ret")

\* C1 as stated: after a critical task has panicked, every other task that
\* is still running resolves Cancelled (whenever such a task resolves, it
\* resolves Cancelled).
C1_OthersResolveCancelled ==
    [][\A t \in Tasks :
         (CritPanickedOther(t) /\ st[t] = "running" /\ st'[t] # "running")
            => st'[t] = "cancelled"]_vars

\* C1 amended: after a critical task has panicked, every other task that is
\* still running resolves at its next poll; it resolves Cancelled unless its
\* body finishes in that same poll (the tie of select!), and a task whose
\* body is still pending on an await that is not ready (a long sleep)
\* always resolves Cancelled.
C1_OthersCancelledOrTie ==
    [][\A t \in Tasks :
         (CritPanickedOther(t) /\ st[t] = "running")
            => \/ NotPolled(t)
               \/ st'[t] = "cancelled"
               \/ FinishesInThisPoll(t)]_vars

\* C1 witness: a critical task has panicked and a sibling that was running
\* has resolved Cancelled, the manager still being alive.
C1_Witness ==
    \E c \in Tasks : \E t \in Tasks \ {c} :
        /\ crit[c] /\ panicked[c] /\ st[c] = "completed"
        /\ st[t] = "cancelled" /\ ~dropped

\* C2 as stated: every accepted task eventually yields one of Completed and
\* Cancelled.
C2_EveryTaskCompletedOrCancelled ==
    \A t \in Tasks :
        [](st[t] = "running" => <>(st[t] \in {"completed", "cancelled"}))

\* C2 amended: a task's handle yields at most one outcome, which never
\* changes once produced; the outcome is Completed or Cancelled, except for
\* a normal task whose body panicked (a join error); and under fair polling
\* the outcome is eventually produced provided the body finishes or the
\* signal has been fired (a body that never finishes yields none before):
\* no task stays running for ever with a finishing body or a fired signal.
C2_OneOutcomeWhenFinishingOrCancelled ==
    /\ [][\A t \in Tasks : st[t] \in Final => st'[t] = st[t]]_vars
    /\ [](\A t \in Tasks : st[t] = "joinerr" => ~crit[t] /\ panicked[t])
    /\ \A t \in Tasks :
          []<>(~(st[t] = "running" /\ (cancelled \/ bodyEnd[t] # "loop")))

\* C2 witness: one task has resolved Completed and another Cancelled.
C2_Witness ==
    \E t \in Tasks : \E u \in Tasks :
        st[t] = "completed" /\ tailRan[t] /\ st[u] = "cancelled"

C5_FiredMeansCancelledTailSkipped ==
    [][\A t \in Tasks :
         (cancelled /\ st[t] = "running" /\ st'[t] # "running")
            => (st'[t] = "cancelled" /\ ~tailRan'[t])]_vars

\* C5 amended: once the signal is fired (by a critical panic or by drop), a
\* task whose body has not yet finished resolves at its next poll: Cancelled
\* with its future dropped and the body's final step never executed, unless
\* the body runs its final step in that same poll, and then the task ends
\* as that step says. A Cancelled task's body has neither returned nor
\* panicked.
C5_FiredMeansCancelledUnlessBodyFinishes ==
    /\ [][\A t \in Tasks :
            (cancelled /\ st[t] = "running")
               => \/ NotPolled(t)
                  \/ (st'[t] = "cancelled" /\ ~tailRan'[t] /\ ~panicked'[t])
                  \/ FinishesInThisPoll(t)]_vars
    /\ [](\A t \in Tasks :
            st[t] = "cancelled" => (cancelled /\ ~tailRan[t] /\ ~panicked[t]))

\* C5 witness: the manager was dropped while a task's body still had an
\* await ahead; the task resolved Cancelled and the final step never ran.
C5_Witness ==
    \E t \in Tasks :
        /\ st[t] = "cancelled" /\ bodyEnd[t] = "ret" /\ left[t] > 0
        /\ ~tailRan[t] /\ dropped
        /\ \A u \in Tasks : ~panicked[u]

\* C6: whenever the body of a critical task has panicked, the signal is
\* fired and one diagnostic event has been emitted for that task, in every
\* state where the panic has happened (so no later than its outcome).
C6_CriticalPanicFiresAndLogs ==
    \A t \in Tasks :
        (crit[t] /\ panicked[t])
            => (cancelled /\ logCount[t] >= 1 /\ st[t] # "running")

\* C6 witness: a critical task's body has panicked while a sibling is still
\* running under the fired signal.
C6_Witness ==
    \E t \in Tasks : \E u \in Tasks :
        /\ crit[t] /\ panicked[t] /\ logCount[t] = 1
        /\ st[u] = "running" /\ cancelled /\ ~dropped

\* C7: the handle of a critical task never yields a join error, and a
\* critical body that panics in a poll before which the signal had not fired
\* makes the handle yield Completed(unit), not Cancelled.
C7_CriticalPanicContained ==
    [][\A t \in Tasks :
         crit'[t]
            => /\ st'[t] # "joinerr"
               /\ (~cancelled /\ ~panicked[t] /\ panicked'[t])
                     => st'[t] = "completed"]_vars

\* C7 witness: a critical task whose body panicked, the only panic so far
\* and with the manager alive, has resolved Completed.
C7_Witness ==
    \E t \in Tasks :
        /\ crit[t] /\ panicked[t] /\ st[t] = "completed" /\ ~tailRan[t]
        /\ ~dropped
        /\ \A u \in Tasks \ {t} : ~panicked[u]

\* C8: a panic of a normal task's body is not intercepted: the step leaves
\* the signal as it was, emits no diagnostic, and changes nothing of any
\* sibling task; the panicking task itself ends with a join error.
C8_NormalPanicLeavesSiblings ==
    [][\A t \in Tasks :
         (~crit[t] /\ ~panicked[t] /\ panicked'[t])
            => /\ cancelled' = cancelled
               /\ logCount' = logCount
               /\ st'[t] = "joinerr"
               /\ \A u \in Tasks \ {t} :
                     /\ st'[u] = st[u]
                     /\ left'[u] = left[u]
                     /\ ready'[u] = ready[u]
                     /\ tailRan'[u] = tailRan[u]
                     /\ panicked'[u] = panicked[u]]_vars

\* C8 witness: a normal task has panicked and ended with a join error, the
\* signal is not fired, and a sibling is still running.
C8_Witness ==
    \E t \in Tasks : \E u \in Tasks \ {t} :
        /\ ~crit[t] /\ panicked[t] /\ st[t] = "joinerr"
        /\ ~cancelled
        /\ st[u] = "running"

\* C9 as stated: once wait_shutdown has been invoked, the signal is fired.
C9_ShutdownFiresSignal ==
    (wsPc # "idle" \/ wsReturned > 0) => cancelled

\* C9 amended: wait_shutdown closes the tracker, then waits until the signal
\* has been fired by something else (a critical task's panic), then waits
\* for the tracked tasks; no step of wait_shutdown fires the signal or
\* changes a task, so the shutdown request itself cancels nothing.
C9_ShutdownWaitsForSignal ==
    [][(wsPc' # wsPc)
          => /\ cancelled' = cancelled
             /\ st' = st
             /\ closed'
             /\ (wsPc # "idle" => cancelled)]_vars

\* C9 witness: wait_shutdown has been invoked and has closed the tracker,
\* the signal is not fired and a task is still running.
C9_Witness ==
    /\ wsPc = "waitCancel" /\ closed /\ ~cancelled
    /\ \E t \in Tasks : st[t] = "running" /\ ~closedAtSpawn[t]

\* C10: under fair polling, if wait_shutdown has been invoked and a critical
\* task has panicked, wait_shutdown eventually returns, whatever the bodies
\* of the other tasks (looping bodies included).
C10_ShutdownReturnsAfterCriticalPanic ==
    (wsPc # "idle" /\ \E c \in Tasks : crit[c] /\ panicked[c])
        ~> (wsPc = "idle" /\ wsReturned > 0)

\* C10 witness: wait_shutdown has returned after a critical panic cancelled
\* a task whose body loops for ever.
C10_Witness ==
    /\ wsReturned > 0 /\ wsPc = "idle" /\ ~dropped
    /\ \E c \in Tasks : \E t \in Tasks :
          /\ crit[c] /\ panicked[c]
          /\ bodyEnd[t] = "loop" /\ st[t] = "cancelled" /\ ~closedAtSpawn[t]

\* wait_shutdown has been called: a call is in progress or one has returned.
WaitShutdownStarted == wsPc # "idle" \/ wsReturned > 0

\* C11: in every state where wait_shutdown has started, the tracker is
\* closed, also while the call is still suspended on an unfired signal.
C11_StartedMeansClosed == WaitShutdownStarted => closed

\* C11 witness: wait_shutdown is suspended on the unfired signal, no task
\* was ever spawned, and the tracker is closed.
C11_Witness ==
    wsPc = "waitCancel" /\ ~cancelled /\ wsReturned = 0 /\ nSpawned = 0 /\ closed

\* C14: the signal is monotonic: once fired it is fired in every later
\* state, whatever the manager or a task does.
C14_SignalStaysFired == [][cancelled => cancelled']_vars

\* C14 witness: the signal was fired by a critical panic, and afterwards
\* wait_shutdown returned, a task resolved Cancelled and the manager was
\* dropped: the signal is still fired.
C14_Witness ==
    /\ cancelled /\ dropped /\ wsReturned > 0
    /\ \E t \in Tasks : st[t] = "cancelled"

\* C15: the closed flag is monotonic: once wait_shutdown has closed the
\* tracker it is closed in every later state.
C15_TrackerStaysClosed == [][closed => closed']_vars

\* C15 witness: the tracker is closed after wait_shutdown returned, a task
\* was spawned on the closed tracker and resolved, and the manager was
\* dropped.
C15_Witness ==
    /\ closed /\ wsReturned > 0 /\ dropped
    /\ \E t \in Tasks : closedAtSpawn[t] /\ st[t] \in Final

\* C16: dropping the manager fires the signal whatever the state, and a drop
\* after wait_shutdown has returned changes neither the signal nor any task
\* outcome.
C16_DropFiresUnconditionally ==
    [][(dropped' /\ ~dropped)
          => /\ cancelled'
             /\ wsReturned > 0 => (cancelled' = cancelled /\ st' = st)]_vars

\* C16 witness: the manager was dropped after wait_shutdown had returned,
\* with a task spawned after the close still running.
C16_Witness ==
    /\ dropped /\ wsReturned > 0 /\ cancelled
    /\ \E t \in Tasks : st[t] = "running"

\* C20: a manager on which nothing has been done yet (no spawn, no
\* wait_shutdown, not dropped) has an open tracker with no registration and
\* an unfired signal.
C20_NewManagerOpenAndUnfired ==
    (nSpawned = 0 /\ ~WaitShutdownStarted /\ ~dropped)
        => (~closed /\ trackerLen = 0 /\ ~cancelled
            /\ \A t \in Tasks : st[t] = "unspawned")

\* C20 witness: the manager as TaskManager::new leaves it.
C20_Witness ==
    /\ nSpawned = 0 /\ ~WaitShutdownStarted /\ ~dropped
    /\ ~closed /\ trackerLen = 0 /\ ~cancelled /\ ~notified

\* C12 as stated: once the signal has fired, every task polled afterwards
\* resolves Cancelled at that poll, and no task resolves Completed any more.
C12_PolledAfterFiringCancelled ==
    [][\A t \in Tasks :
         cancelled
            => /\ (st[t] = "running" /\ ~NotPolled(t)) => st'[t] = "cancelled"
               /\ st[t] # "completed" => st'[t] # "completed"]_vars

\* C12 amended: once the signal has fired, every tracked task polled
\* afterwards resolves at that poll and never stays running; it resolves
\* Cancelled unless select! polls the task branch first and the body runs
\* its final step in that poll. A task spawned after the firing is resolved
\* by its first poll: while running it has not been polled, and it is
\* Completed (or a join error) only if its body had no await to wait on.
C12_PolledAfterFiringResolves ==
    /\ [][\A t \in Tasks :
            (cancelled /\ st[t] = "running" /\ ~NotPolled(t))
               => /\ st'[t] \in Final
                  /\ st'[t] # "cancelled" => FinishesInThisPoll(t)]_vars
    /\ [](\A t \in Tasks :
            firedAtSpawn[t]
               => /\ st[t] = "running"
                     => (ready[t] /\ ~tailRan[t] /\ ~panicked[t])
                  /\ st[t] \in {"completed", "joinerr"}
                     => (left[t] = 0 /\ (tailRan[t] \/ panicked[t])))

\* C12 witness: a task spawned after the signal had fired, with an await
\* ahead in its body, has resolved Cancelled, the manager being alive.
C12_Witness ==
    \E t \in Tasks :
        /\ firedAtSpawn[t] /\ st[t] = "cancelled" /\ ~dropped
        /\ bodyEnd[t] = "ret" /\ left[t] > 0

\* C13: firing the signal again is the same as firing it once: a step that
\* calls cancel on a fired signal leaves it fired, and the only outcome it
\* produces is that of the critical task whose panic made the call, which
\* completes as after a first firing; a drop changes no task.
C13_FiringTwiceAsOnce ==
    [][(cancelled /\ fires' > fires)
          => /\ cancelled'
             /\ \A t \in Tasks :
                   st'[t] # st[t]
                      => (crit[t] /\ ~panicked[t] /\ panicked'[t]
                          /\ st'[t] = "completed")]_vars

\* C13 witness: two critical tasks have panicked, each calling cancel, and
\* the manager was then dropped: three firings.
C13_Witness ==
    /\ fires >= 3 /\ dropped /\ cancelled
    /\ \E t \in Tasks : \E u \in Tasks \ {t} :
          crit[t] /\ panicked[t] /\ crit[u] /\ panicked[u]

\* The case C17 speaks of: wait_shutdown has been called on a manager on
\* which no task was ever spawned, and the signal is fired. No reachable
\* state is such a state: without a task nothing can call cancel while
\* wait_shutdown borrows the manager, and a dropped manager takes no call.
NoTaskNoFiringDuringShutdown ==
    (nSpawned = 0 /\ WaitShutdownStarted)
        => (~cancelled /\ wsPc = "waitCancel" /\ wsReturned = 0)


\* Task t is at the tie: it is running, the signal is fired, and its body
\* would return in this very poll (its await is ready, none is left).
AtTie(t) ==
    /\ st[t] = "running" /\ cancelled
    /\ ready[t] /\ left[t] = 0 /\ bodyEnd[t] = "ret"

\* C23: when a task's body is ready to return in the race evaluation that
\* observes the signal as fired, both outcomes are possible for that task:
\* some poll resolves it Completed and some poll resolves it Cancelled.
C23_TieHasBothOutcomes ==
    \A t \in Tasks :
        AtTie(t)
            => /\ ENABLED (PollTask /\ st'[t] = "completed" /\ tailRan'[t])
               /\ ENABLED (PollTask /\ st'[t] = "cancelled" /\ ~tailRan'[t])

\* C23 witness: a task spawned after the signal had fired, so polled only
\* under the fired signal, has run its body to the end and resolved
\* Completed: the task branch won the tie.
C23_Witness ==
    \E t \in Tasks :
        /\ firedAtSpawn[t] /\ bodyEnd[t] = "ret" /\ left[t] = 0
        /\ st[t] = "completed" /\ tailRan[t] /\ ~dropped

\* In this step the body of critical task t panics.
CriticalBodyPanics(t) == crit[t] /\ ~panicked[t] /\ panicked'[t]

\* C24: the signal goes from unfired to fired only in a step where a
\* critical task's body panics or the manager is dropped; every other step
\* (a spawn, a step of wait_shutdown, a task completing without a critical
\* panic, a task resolving Cancelled, a normal task's panic) leaves the
\* signal as it was.
C24_OnlyCriticalPanicOrDropFires ==
    [][cancelled' # cancelled
          => /\ ~cancelled /\ cancelled'
             /\ \/ ~dropped /\ dropped'
                \/ \E t \in Tasks : CriticalBodyPanics(t)]_vars

\* C24 witness: a normal task has panicked, wait_shutdown has been called
\* and a critical task's body has panicked: cancel was called once, by that
\* last step alone, and the signal is fired.
C24_Witness ==
    /\ cancelled /\ ~dropped /\ fires = 1 /\ wsPc = "waitCancel"
    /\ \E t \in Tasks : \E u \in Tasks \ {t} :
          /\ crit[t] /\ panicked[t]
          /\ ~crit[u] /\ st[u] = "joinerr"

\* The tasks that are in flight: spawned and not yet ended.
InFlight == {t \in Tasks : st[t] = "running"}

\* C25: the tracker's count equals the number of spawned tasks that have
\* not yet ended (by Completed, by Cancelled or by a normal task's panic),
\* and the step that closes the tracker changes neither the count nor any
\* task.
C25_TrackerCountsInFlight ==
    /\ [](trackerLen = Cardinality(InFlight))
    /\ [][(~closed /\ closed')
            => (trackerLen' = trackerLen /\ UNCHANGED taskVars)]_vars

\* C25 witness: the tracker was closed while one task was in flight, a
\* sibling having ended by a normal panic: the count is one and the task in
\* flight still runs.
C25_Witness ==
    /\ closed /\ trackerLen = 1 /\ ~cancelled
    /\ \E t \in Tasks : \E u \in Tasks \ {t} :
          /\ st[t] = "running" /\ ~closedAtSpawn[t]
          /\ st[u] = "joinerr"

\* C26: the manager builds one panic record and emits one diagnostic event
\* for each panic of a critical task's body, and none otherwise: none for a
\* task that resolves Cancelled, none for one that completes without
\* panicking, none for a critical task cancelled before it could panic.
C26_OneDiagnosticPerCriticalPanic ==
    \A t \in Tasks :
        logCount[t] = IF crit[t] /\ panicked[t] THEN 1 ELSE 0

\* C26 witness: a critical task has panicked and was logged once, while a
\* critical sibling whose body would have panicked was cancelled before it
\* could, and was not logged.
C26_Witness ==
    \E t \in Tasks : \E u \in Tasks \ {t} :
        /\ crit[t] /\ panicked[t] /\ logCount[t] = 1
        /\ crit[u] /\ bodyEnd[u] = "panic" /\ st[u] = "cancelled"
        /\ logCount[u] = 0

\* The manager has been dropped and wait_shutdown was never called on it.
DroppedWithoutShutdown == dropped /\ ~WaitShutdownStarted

\* C27 as stated: after the manager is dropped without wait_shutdown, every
\* task still running eventually resolves Cancelled, under fair polling.
C27_RunningAtDropEndsCancelled ==
    \A t \in Tasks :
        [](DroppedWithoutShutdown /\ st[t] = "running"
              => <>(st[t] = "cancelled"))

\* C27 amended: the drop waits for no task (the step changes no task and
\* not the tracker's count, whatever is running); under fair polling every
\* task running at the drop eventually resolves, by its next poll; it
\* resolves Cancelled unless its body runs its final step in that same poll
\* (the tie of select!).
C27_RunningAtDropEndsAtNextPoll ==
    /\ [][(~dropped /\ dropped')
            => (trackerLen' = trackerLen /\ UNCHANGED taskVars)]_vars
    /\ [][\A t \in Tasks :
            (DroppedWithoutShutdown /\ st[t] = "running")
               => \/ NotPolled(t)
                  \/ st'[t] = "cancelled"
                  \/ FinishesInThisPoll(t)]_vars
    /\ \A t \in Tasks : []<>(~(DroppedWithoutShutdown /\ st[t] = "running"))

\* C27 witness: the manager was dropped, wait_shutdown never called, no
\* task ever panicked, and a task whose body loops for ever has resolved
\* Cancelled while a sibling is still running.
C27_Witness ==
    /\ DroppedWithoutShutdown
    /\ \A c \in Tasks : ~panicked[c]
    /\ \E t \in Tasks : \E u \in Tasks \ {t} :
          /\ bodyEnd[t] = "loop" /\ st[t] = "cancelled"
          /\ st[u] = "running"

\* A call of wait_shutdown made after an earlier call has returned is in
\* progress.
SecondCallInProgress == wsReturned >= 1 /\ wsPc # "idle"

TaskNames == {"X", "db", "task 1", "task 4"}

\* Messages a panic may carry.
PanicMsgs == {"boom", "ahh i panicked", "oom", ""}

\* What a panic hands to catch_unwind, a Box<dyn Any + Send>: a String
\* (panic!("{}", x)), a &'static str (panic!("literal")), or a value that
\* is no string at all (std::panic::panic_any).
Payloads ==
    [kind : {"String", "str"}, msg : PanicMsgs]
        \cup {[kind |-> "i32", msg |-> ""], [kind |-> "unit", msg |-> ""]}

\* A payload that is a string, owned or borrowed.
IsStringPayload(error) == error.kind \in {"String", "str"}

\* The rendering that names the task: the name, then the message of a
\* string payload if there is one.
NamedRendering(task_name, error) ==
    IF IsStringPayload(error)
    THEN "Task '" \o task_name \o "' panicked with error: " \o error.msg
    ELSE "Task '" \o task_name \o "' panicked"

\* Display for PanickedTaskError: downcast_ref::<String>() succeeds only
\* for an owned String, whose text alone is written; anything else writes
\* nothing. The task_name field is not read.
PanickedTaskError_fmt(task_name, error) ==
    IF error.kind = "String" THEN error.msg ELSE ""

\* A task with some name is panicking with some payload.
RecordInit ==
    /\ TaskManager_new
    /\ rec \in [stage : {"panicking"}, task_name : TaskNames,
                error : Payloads, text : {""}]
    /\ builder = NoBuilder
    /\ task = NoTask
    /\ reporter = NoReporter

\* catch_unwind hands the payload over and the record is built from it
\* and from the task's name.
RecordCatch ==
    /\ rec.stage = "panicking"
    /\ rec' = [rec EXCEPT !.stage = "caught"]
    /\ UNCHANGED <<mgrVars, reporter, builder, task>>

\* error!(error = %error, ...): the record is rendered with Display.
RecordRender ==
    /\ rec.stage = "caught"
    /\ rec' = [rec EXCEPT !.stage = "rendered",
                          !.text = PanickedTaskError_fmt(rec.task_name, rec.error)]
    /\ UNCHANGED <<mgrVars, reporter, builder, task>>

RecordNext == RecordCatch \/ RecordRender

RecordSpec == RecordInit /\ [][RecordNext]_vars

\* C18: a panic record renders as "Task 'X' panicked with error: <message>"
\* when the payload is a string message, and as "Task 'X' panicked", with
\* no message, for every payload that is not a string.
C18_RendersNameAndMessage ==
    rec.stage = "rendered" => rec.text = NamedRendering(rec.task_name, rec.error)


\* ---------------------------------------------------------------------
\* task.rs: TaskBuilder, CriticalTaskBuilder, Task and TaskFut.
\* ---------------------------------------------------------------------

\* Names given to a builder.
BuilderNames == {"task 2", "ohayo"}

\* The future handed to TaskBuilder::new: it returns, or it panics with a
\* payload.
BuilderFuts ==
    {[end |-> "ret", error |-> [kind |-> "unit", msg |-> ""]]}
        \cup {[end |-> "panic", error |-> e] :
                e \in {[kind |-> "String", msg |-> "boom"],
                       [kind |-> "str", msg |-> "boom"],
                       [kind |-> "i32", msg |-> ""]}}

\* The output type T of the future: the unit type or some other type.
OutputTypes == {"unit", "u64"}

\* TaskBuilder::new(fut): no name, no metrics. The field calls is history:
\* the builder methods called so far.
TaskBuilder_new(fut, output) ==
    [stage |-> "config", kind |-> "TaskBuilder", fut |-> fut,
     output |-> output, name |-> << >>, metrics |-> FALSE, calls |-> {}]

BuilderInit ==
    /\ TaskManager_new
    /\ rec = NoRecord
    /\ builder \in {TaskBuilder_new(f, o) : f \in BuilderFuts, o \in OutputTypes}
    /\ task = NoTask
    /\ reporter = NoReporter

\* TaskBuilder::name: self.name = Some(name).
TaskBuilder_name ==
    /\ builder.stage = "config"
    /\ builder.kind = "TaskBuilder"
    /\ \E n \in BuilderNames :
          builder' = [builder EXCEPT !.name = <<n>>, !.calls = @ \cup {"name"}]
    /\ UNCHANGED <<mgrVars, reporter, rec, task>>

\* TaskBuilder::with_metrics: self.metrics = true.
TaskBuilder_with_metrics ==
    /\ builder.stage = "config"
    /\ builder.kind = "TaskBuilder"
    /\ builder' = [builder EXCEPT !.metrics = TRUE,
                                  !.calls = @ \cup {"with_metrics"}]
    /\ UNCHANGED <<mgrVars, reporter, rec, task>>

\* Mutant of TaskBuilder_critical: the conversion starts from a fresh
\* configuration, the name and the metrics flag are lost.
TaskBuilder_critical_ForgetsConfig ==
    /\ builder.stage = "config"
    /\ builder.kind = "TaskBuilder"
    /\ builder.output = "unit"
    /\ builder' = [stage |-> "config", kind |-> "CriticalTaskBuilder",
                   fut |-> builder.fut, output |-> builder.output,
                   name |-> << >>, metrics |-> FALSE,
                   calls |-> builder.calls \cup {"critical"}]
    /\ UNCHANGED <<mgrVars, reporter, rec, task>>

\* Mutant of TaskBuilder_critical: the conversion is there for a future of
\* any output type.
TaskBuilder_critical_AnyOutput ==
    /\ builder.stage = "config"
    /\ builder.kind = "TaskBuilder"
    /\ builder' = [stage |-> "config", kind |-> "CriticalTaskBuilder",
                   fut |-> builder.fut, output |-> builder.output,
                   name |-> builder.name, metrics |-> builder.metrics,
                   calls |-> builder.calls \cup {"critical"}]
    /\ UNCHANGED <<mgrVars, reporter, rec, task>>

\* TaskBuilder::critical, only there for a future of unit output: the
\* future, the name and the metrics flag move to a CriticalTaskBuilder.
TaskBuilder_critical ==
    /\ builder.stage = "config"
    /\ builder.kind = "TaskBuilder"
    /\ builder.output = "unit"
    /\ builder' = [stage |-> "config", kind |-> "CriticalTaskBuilder",
                   fut |-> builder.fut, output |-> builder.output,
                   name |-> builder.name, metrics |-> builder.metrics,
                   calls |-> builder.calls \cup {"critical"}]
    /\ UNCHANGED <<mgrVars, reporter, rec, task>>

\* CriticalTaskBuilder::name.
CriticalTaskBuilder_name ==
    /\ builder.stage = "config"
    /\ builder.kind = "CriticalTaskBuilder"
    /\ \E n \in BuilderNames :
          builder' = [builder EXCEPT !.name = <<n>>, !.calls = @ \cup {"name"}]
    /\ UNCHANGED <<mgrVars, reporter, rec, task>>

\* CriticalTaskBuilder::with_metrics.
CriticalTaskBuilder_with_metrics ==
    /\ builder.stage = "config"
    /\ builder.kind = "CriticalTaskBuilder"
    /\ builder' = [builder EXCEPT !.metrics = TRUE,
                                  !.calls = @ \cup {"with_metrics"}]
    /\ UNCHANGED <<mgrVars, reporter, rec, task>>

\* The wrappers around the future, innermost first, then the monitor.
Instrumented(layers, metrics) ==
    IF metrics THEN Append(layers, "instrument") ELSE layers

\* A Task that has not been polled.
NewTask(fut, layers, monitor) ==
    [stage |-> "built", fut |-> fut, layers |-> layers, monitor |-> monitor,
     out |-> "pending", value |-> "none", caught |-> FALSE, log |-> << >>]

\* TaskBuilder::build: TaskFut::Normal of the future, instrumented by a
\* fresh monitor if metrics is set.
TaskBuilder_build ==
    /\ builder.stage = "config"
    /\ builder.kind = "TaskBuilder"
    /\ task' = NewTask("Normal", Instrumented(<< >>, builder.metrics), builder.metrics)
    /\ builder' = [builder EXCEPT !.stage = "built"]
    /\ UNCHANGED <<mgrVars, reporter, rec>>

\* CriticalTaskBuilder::build: catch_unwind, map_err (the logging closure)
\* and map(drop) go around the future first, then the instrumentation.
CriticalTaskBuilder_build ==
    /\ builder.stage = "config"
    /\ builder.kind = "CriticalTaskBuilder"
    /\ task' = NewTask("Critical",
                       Instrumented(<<"catch_unwind", "map_err", "map_drop">>, builder.metrics),
                       builder.metrics)
    /\ builder' = [builder EXCEPT !.stage = "built"]
    /\ UNCHANGED <<mgrVars, reporter, rec>>

\* The value a future of the output type returns.
Returned(output) == IF output = "unit" THEN "()" ELSE "value"

\* std::mem::zeroed::<T>(): the all-zero bit pattern of the output type T,
\* which for the unit type is the unit value.
Zeroed(output) == IF output = "unit" THEN "()" ELSE "zeroed"

\* The wrapper is one of the layers.
HasLayer(layers, l) == \E i \in 1..Len(layers) : layers[i] = l

\* TaskFut::poll, with a future that ends at this poll. Without
\* catch_unwind a panic unwinds through the poll. With it the payload
\* becomes an Err, the map_err closure builds a PanickedTaskError and logs
\* it with the builder's name, and map(drop) leaves the unit value; the
\* closure holds no cancellation token and fires none.
TaskFut_poll ==
    LET fut == builder.fut
        caught == fut.end = "panic" /\ HasLayer(task.layers, "catch_unwind")
        logs == caught /\ HasLayer(task.layers, "map_err")
        entry == [error |-> PanickedTaskError_fmt("", fut.error), task |-> builder.name]
    IN  /\ task.stage = "built"
        /\ task' = [task EXCEPT !.stage = "polled",
                                !.out = IF fut.end = "panic" /\ ~caught
                                        THEN "unwound" ELSE "ready",
                                !.value = IF fut.end = "panic" /\ ~caught
                                          THEN "none"
                                          ELSE IF task.fut = "Critical"
                                          THEN Zeroed(builder.output)
                                          ELSE Returned(builder.output),
                                !.caught = caught,
                                !.log = IF logs THEN Append(@, entry) ELSE @]
        /\ UNCHANGED <<mgrVars, reporter, rec, builder>>

BuilderNext ==
    \/ TaskBuilder_name
    \/ TaskBuilder_with_metrics
    \/ TaskBuilder_critical
    \/ CriticalTaskBuilder_name
    \/ CriticalTaskBuilder_with_metrics
    \/ TaskBuilder_build
    \/ CriticalTaskBuilder_build
    \/ TaskFut_poll

BuilderSpec == BuilderInit /\ [][BuilderNext]_vars

\* C19: when the body of a task built by CriticalTaskBuilder::build
\* panics, the unwind is captured, the manager's cancellation signal is
\* fired and a diagnostic is logged; the interception is the innermost
\* wrapper and the metrics wrapping, if enabled, lies outside it.
C19_BuiltCriticalPanicFiresSignal ==
    (task.stage = "polled" /\ task.fut = "Critical" /\ builder.fut.end = "panic") =>
        /\ task.caught
        /\ task.out = "ready"
        /\ cancelled
        /\ Len(task.log) = 1
        /\ task.layers[1] = "catch_unwind"
        /\ task.monitor => task.layers[Len(task.layers)] = "instrument"


\* The Task has been built.
Built == task.stage \in {"built", "polled"}

\* C21: for every sequence of calls of name, with_metrics and critical
\* followed by build, the built task is tagged Critical exactly when
\* critical() was called and Normal otherwise, it carries a monitor (and
\* the instrumentation) exactly when with_metrics() was called, and the
\* conversion by critical() keeps the name and the metrics flag set before.
C21_BuiltAsConfigured ==
    /\ [](Built
            => /\ task.fut = (IF "critical" \in builder.calls
                              THEN "Critical" ELSE "Normal")
               /\ task.monitor = ("with_metrics" \in builder.calls)
               /\ HasLayer(task.layers, "instrument")
                     = ("with_metrics" \in builder.calls))
    /\ [][(builder.stage = "config" /\ builder'.kind # builder.kind)
            => /\ builder'.name = builder.name
               /\ builder'.metrics = builder.metrics
               /\ builder'.fut = builder.fut]_vars

\* C21 witness: with_metrics and name were called before critical, and the
\* built task is Critical and carries a monitor (test foo's first task).
C21_Witness ==
    /\ Built
    /\ builder.calls = {"name", "with_metrics", "critical"}
    /\ builder.name # << >> /\ builder.kind = "CriticalTaskBuilder"
    /\ task.fut = "Critical" /\ task.monitor

\* C28: every task tagged Critical comes from a configuration converted by
\* critical() from one whose future returns unit, so its output type is the
\* unit type and the value manufactured when it resolves is the unit value.
C28_CriticalHasUnitOutput ==
    (Built /\ task.fut = "Critical")
        => /\ builder.output = "unit"
           /\ "critical" \in builder.calls
           /\ task.stage = "polled" => (task.out = "ready" /\ task.value = "()")

\* C28 witness: a Critical task whose body panicked has resolved, and the
\* value it yields is the unit value.
C28_Witness ==
    /\ task.stage = "polled" /\ task.fut = "Critical"
    /\ builder.fut.end = "panic" /\ task.out = "ready" /\ task.value = "()"


\* ---------------------------------------------------------------------
\* metrics.rs: TaskManagerMetrics and its report.
\* ---------------------------------------------------------------------

\* The longest explicit run of samples of an intervals iterator, and the
\* most calls of report.
MaxSamples == 2
MaxReports == 3

\* The keys of the metrics map: the registered tasks.
MetricKeys == {"a", "b"}

\* The total_first_poll_delay of a sample, a std::time::Duration.
Durations ==
    {[secs |-> 0, nanos |-> 0], [secs |-> 0, nanos |-> 500000000],
     [secs |-> 1, nanos |-> 0]}

\* Sequences of durations of length n at most.
RECURSIVE DurationSeqs(_)
DurationSeqs(n) ==
    IF n = 0 THEN {<< >>}
    ELSE LET shorter == DurationSeqs(n - 1)
         IN  shorter \cup {Append(q, d) : q \in shorter, d \in Durations}

\* A TaskIntervals, a Box<dyn Iterator<Item = tokio_metrics::TaskMetrics>>:
\* the samples it yields first, and whether it then goes on for ever (as
\* TaskMonitor::intervals does, with samples of no delay once the task has
\* been polled) or ends.
TaskIntervals == [samples : DurationSeqs(MaxSamples), endless : BOOLEAN]

\* Iterator::next on an intervals iterator from which taken samples were
\* taken: Some(sample) or None.
IntervalsNext(intervals, taken) ==
    IF taken < Len(intervals.samples)
    THEN [some |-> TRUE, total_first_poll_delay |-> intervals.samples[taken + 1]]
    ELSE IF intervals.endless
    THEN [some |-> TRUE, total_first_poll_delay |-> [secs |-> 0, nanos |-> 0]]
    ELSE [some |-> FALSE, total_first_poll_delay |-> [secs |-> 0, nanos |-> 0]]

\* Mutant of unwrap: unwrap_or_default, None becomes a default sample.
unwrap_or_default(opt) == [panic |-> FALSE, value |-> opt.total_first_poll_delay]

\* Option::unwrap: the value of Some, a panic on None.
unwrap(opt) == [panic |-> ~opt.some, value |-> opt.total_first_poll_delay]

\* Duration::as_secs_f64: the seconds as a floating point number, here the
\* whole seconds and the fraction in units of 1e-9.
as_secs_f64(d) == [whole |-> d.secs, fraction_e9 |-> d.nanos]

\* Mutant of Histogram_record: the histogram keeps only the last value.
Histogram_record_Overwrites(hist, v) == <<v>>

\* Histogram::record: one more value in the histogram.
Histogram_record(hist, v) == Append(hist, v)

\* The body of report's loop for one entry of the map: take the next
\* sample, unwrap it, record its delay in the entry's own histogram.
ReportEntry(entry) ==
    LET got == unwrap(IntervalsNext(entry.intervals, entry.taken))
    IN  IF got.panic
        THEN [panic |-> TRUE, entry |-> entry]
        ELSE [panic |-> FALSE,
              entry |-> [entry EXCEPT
                           !.taken = IF IntervalsNext(entry.intervals, @).some
                                     THEN @ + 1 ELSE @,
                           !.hist = Histogram_record(@, as_secs_f64(got.value))]]

\* The loop of report over values_mut(), in the order the map yields its
\* entries, from the i-th on; a panic ends the loop where it happens.
RECURSIVE ReportLoop(_, _, _)
ReportLoop(metrics, order, i) ==
    IF i > Len(order) THEN [panic |-> FALSE, metrics |-> metrics]
    ELSE LET r == ReportEntry(metrics[order[i]])
         IN  IF r.panic THEN [panic |-> TRUE, metrics |-> metrics]
             ELSE ReportLoop([metrics EXCEPT ![order[i]] = r.entry], order, i + 1)

\* The orders in which a HashMap may yield the given keys.
Orders(keys) ==
    {o \in [1..Cardinality(keys) -> keys] :
        \A i, j \in 1..Cardinality(keys) : i # j => o[i] # o[j]}

\* A registered task: an empty histogram and an iterator nothing was taken
\* from.
NewEntry(intervals) == [hist |-> << >>, taken |-> 0, intervals |-> intervals]

\* A reporter with some registered tasks, before any report.
MetricsInit ==
    /\ TaskManager_new
    /\ rec = NoRecord
    /\ builder = NoBuilder
    /\ task = NoTask
    /\ \E keys \in SUBSET MetricKeys :
          reporter \in [stage : {"ready"},
                        metrics : [keys -> {NewEntry(it) : it \in TaskIntervals}],
                        reports : {0}, panics : {0}]

\* TaskManagerMetrics::report: the whole call, which returns or panics.
report ==
    /\ reporter.stage = "ready"
    /\ reporter.reports < MaxReports
    /\ \E order \in Orders(DOMAIN reporter.metrics) :
          LET r == ReportLoop(reporter.metrics, order, 1)
          IN  reporter' = [reporter EXCEPT
                             !.metrics = r.metrics,
                             !.reports = @ + 1,
                             !.panics = IF r.panic THEN @ + 1 ELSE @]
    /\ UNCHANGED <<mgrVars, rec, builder, task>>

MetricsNext == report

MetricsSpec == MetricsInit /\ [][MetricsNext]_vars

\* This step is a call of report.
ReportCalled == reporter'.reports = reporter.reports + 1

\* The intervals iterator of the registered task k has no next element.
Exhausted(k) ==
    ~IntervalsNext(reporter.metrics[k].intervals, reporter.metrics[k].taken).some

\* C22: each call of report that returns advances the sample sequence of
\* every registered task by exactly one element and records exactly one
\* value, the time to first poll of the sample just taken, into that task's
\* own histogram; after k such reports every task's sequence has advanced k
\* times and its histogram holds k records.
C22_ReportAdvancesEveryTaskByOne ==
    /\ [][(ReportCalled /\ reporter'.panics = reporter.panics)
            => \A k \in DOMAIN reporter.metrics :
                  LET e == reporter.metrics[k]
                      sample == IntervalsNext(e.intervals, e.taken)
                  IN  /\ sample.some
                      /\ reporter'.metrics[k].taken = e.taken + 1
                      /\ reporter'.metrics[k].hist
                            = Append(e.hist, as_secs_f64(sample.total_first_poll_delay))
                      /\ reporter'.metrics[k].intervals = e.intervals]_vars
    /\ [](reporter.panics = 0
            => \A k \in DOMAIN reporter.metrics :
                  /\ reporter.metrics[k].taken = reporter.reports
                  /\ Len(reporter.metrics[k].hist) = reporter.reports)

\* C22 witness: two reports have returned on two registered tasks whose
\* samples differ: each histogram holds two records, its own.
C22_Witness ==
    /\ reporter.reports = 2 /\ reporter.panics = 0
    /\ DOMAIN reporter.metrics = MetricKeys
    /\ \A k \in MetricKeys : Len(reporter.metrics[k].hist) = 2
    /\ reporter.metrics["a"].hist # reporter.metrics["b"].hist
    /\ reporter.metrics["a"].hist[1] # reporter.metrics["a"].hist[2]

\* C30: a call of report made while some registered task's sample sequence
\* has no next element panics; that task is not skipped silently and no
\* default value is recorded for it: its histogram is left as it was.
C30_ExhaustedSequencePanics ==
    [][(ReportCalled /\ \E k \in DOMAIN reporter.metrics : Exhausted(k))
          => /\ reporter'.panics = reporter.panics + 1
             /\ \A k \in DOMAIN reporter.metrics :
                   Exhausted(k) => reporter'.metrics[k] = reporter.metrics[k]]_vars

\* C30 witness: a report has panicked on a task whose sequence had ended
\* after one sample, while another task's sequence goes on.
C30_Witness ==
    /\ reporter.panics >= 1
    /\ \E k \in DOMAIN reporter.metrics : \E j \in DOMAIN reporter.metrics :
          /\ ~reporter.metrics[k].intervals.endless
          /\ reporter.metrics[k].taken = 1
          /\ Len(reporter.metrics[k].intervals.samples) = 1
          /\ reporter.metrics[j].intervals.endless

====
